---- MODULE Spec2Model ----
(***************************************************************************)
(* Model of the American Pizza Project query tool (app_streamlit):        *)
(*   data_processor.py   filter_by_demographics, build_text_df            *)
(*   theme_analyzer.py   _build_export_from_long, run_lloom_induction     *)
(*   app.py              _to_list_like, the "Run Induction" script        *)
(*                                                                         *)
(* A Python str is a sequence of one-character strings (<<"a", " ">>), so *)
(* that strip, split and join are computed as Python computes them.       *)
(* A table (DataFrame) is a sequence of records, one per row, in row      *)
(* order.  A missing cell (NaN / None) is NULL for text cells and NaN for *)
(* atomic cells.                                                           *)
(***************************************************************************)
EXTENDS Integers, Sequences, FiniteSets, TLC

VARIABLES
    mode,        \* which entry point is being exercised, and how far it got
    df,          \* filter_by_demographics: the input table
    crit,        \* filter_by_demographics: regions, ages, incomes, diets
    sub,         \* filter_by_demographics: the returned table
    text_in,     \* build_text_df: the input table
    questions,   \* build_text_df: the selection of response-field names
    text_res,    \* build_text_df: what the call produced
    score_df,    \* _build_export_from_long: the long-form score table
    concepts_dict, \* _build_export_from_long: concept ids, in dict order
    export_res,  \* _build_export_from_long: what the call produced
    shown,       \* app.py: export_df as re-sorted for the theme cards
    val,         \* _to_list_like: the value to normalize
    pieces,      \* _to_list_like: the returned list
    api_key,     \* app.py: os.getenv("OPENAI_API_KEY")
    has_lloom,   \* theme_analyzer._HAS_LLOOM
    df_text,     \* app.py: the documents (build_text_df's table plus doc_id)
    engine_calls, \* how often wb.lloom / gen_auto was invoked in this run
    msgs,        \* app.py: the st.error / st.warning / st.info messages shown
    cards,       \* app.py: the theme cards rendered
    breakdown    \* app.py: the regional breakdown tables rendered

vars == <<mode, df, crit, sub, text_in, questions, text_res,
          score_df, concepts_dict, export_res, shown, val, pieces,
          api_key, has_lloom, df_text, engine_calls, msgs, cards, breakdown>>

(***************************************************************************)
(* Python str helpers                                                      *)
(***************************************************************************)
\* str.strip() with no argument strips these
WHITESPACE == {" ", "\t", "\n", "\r"}

RECURSIVE LStrip(_, _)
LStrip(s, chars) ==
    IF s # <<>> /\ Head(s) \in chars THEN LStrip(Tail(s), chars) ELSE s

RECURSIVE RStrip(_, _)
RStrip(s, chars) ==
    IF s # <<>> /\ s[Len(s)] \in chars
    THEN RStrip(SubSeq(s, 1, Len(s) - 1), chars)
    ELSE s

\* s.strip(chars)
StripChars(s, chars) == RStrip(LStrip(s, chars), chars)

\* s.strip()
Strip(s) == StripChars(s, WHITESPACE)

\* sep.join(parts)
RECURSIVE Join(_, _)
Join(parts, sep) ==
    IF parts = <<>> THEN <<>>
    ELSE IF Len(parts) = 1 THEN parts[1]
    ELSE parts[1] \o sep \o Join(Tail(parts), sep)

\* list[:n]
Take(s, n) == SubSeq(s, 1, IF Len(s) < n THEN Len(s) ELSE n)

\* the set of elements of a sequence
Range(s) == {s[i] : i \in 1..Len(s)}

\* every sequence over S of length at most n
SeqsUpTo(S, n) == UNION {[1..k -> S] : k \in 0..n}

(***************************************************************************)
(* The variables of the entry points a specification does not exercise     *)
(***************************************************************************)
filterVars == <<df, crit, sub>>
textVars   == <<text_in, questions, text_res>>

exportVars == <<score_df, concepts_dict, export_res, shown>>

ExportIdle ==
    /\ score_df = <<>> /\ concepts_dict = <<>>
    /\ export_res = [status |-> "none", rows |-> <<>>] /\ shown = <<>>

listVars == <<val, pieces>>

ListIdle == val = [kind |-> "none", items |-> <<>>, s |-> <<>>] /\ pieces = <<>>

runVars == <<api_key, has_lloom, df_text, engine_calls, msgs, cards, breakdown>>

RunIdle ==
    /\ api_key = "" /\ has_lloom = FALSE /\ df_text = <<>> /\ engine_calls = 0
    /\ msgs = <<>> /\ cards = <<>> /\ breakdown = <<>>

FilterIdle == df = <<>> /\ crit = <<>> /\ sub = <<>>

TextIdle == text_in = <<>> /\ questions = <<>> /\ text_res = [status |-> "none", rows |-> <<>>]

(***************************************************************************)
(* data_processor.filter_by_demographics                                   *)
(***************************************************************************)
MaxFilterRows == 2

Regions == {"Northeast", "South"}
Ages    == {30, 40}
Incomes == {"low", "high"}
Diets   == {"none", "vegan"}

\* Optional[List]: None, or a list (membership is all isin() reads of it)
NoneCrit    == [given |-> FALSE, vals |-> {}]
ListCrit(S) == [given |-> TRUE, vals |-> S]

\* Python truthiness of an Optional[List]: None and [] are falsy
Truthy(c) == c.given /\ c.vals # {}

\* sub[sub[col].isin(values)]
IsinRows(t, col, values) == SelectSeq(t, LAMBDA r : r[col] \in values)

filter_by_demographics_disj(t, regions, ages, incomes, diets) ==
    SelectSeq(t, LAMBDA r :
        \/ ~(Truthy(regions) \/ Truthy(ages) \/ Truthy(incomes) \/ Truthy(diets))
        \/ (Truthy(regions) /\ r.region_of_residence \in regions.vals)
        \/ (Truthy(ages) /\ r.age \in ages.vals)
        \/ (Truthy(incomes) /\ r.income \in incomes.vals)
        \/ (Truthy(diets) /\ r.food_restrictions \in diets.vals))

filter_by_demographics(t, regions, ages, incomes, diets) ==
    LET s0 == t
        s1 == IF Truthy(regions) THEN IsinRows(s0, "region_of_residence", regions.vals) ELSE s0
        s2 == IF Truthy(ages) THEN IsinRows(s1, "age", ages.vals) ELSE s1
        s3 == IF Truthy(incomes) THEN IsinRows(s2, "income", incomes.vals) ELSE s2
        s4 == IF Truthy(diets) THEN IsinRows(s3, "food_restrictions", diets.vals) ELSE s3
    IN  s4

FilterRowAttrs ==
    [region_of_residence : Regions, age : Ages, income : Incomes, food_restrictions : Diets]

\* tables whose participant_id is the (unique) row number
FilterTables ==
    {[i \in 1..Len(a) |->
        [participant_id |-> i,
         region_of_residence |-> a[i].region_of_residence,
         age |-> a[i].age,
         income |-> a[i].income,
         food_restrictions |-> a[i].food_restrictions]]
     : a \in SeqsUpTo(FilterRowAttrs, MaxFilterRows)}

CritChoices(S, one, other) == {NoneCrit, ListCrit({}), ListCrit({one}), ListCrit({one, other})}

FilterInit ==
    /\ mode = "filter_input"
    /\ df \in FilterTables
    /\ crit \in CritChoices(Regions, "Northeast", "South")
                \X CritChoices(Ages, 30, 40)
                \X {NoneCrit, ListCrit({}), ListCrit({"low"})}
                \X {NoneCrit, ListCrit({}), ListCrit({"vegan"})}
    /\ sub = <<>>
    /\ TextIdle /\ ExportIdle /\ ListIdle /\ RunIdle

FilterCall ==
    /\ mode = "filter_input"
    /\ sub' = filter_by_demographics(df, crit[1], crit[2], crit[3], crit[4])
    /\ mode' = "filter_done"
    /\ UNCHANGED <<df, crit>>
    /\ UNCHANGED <<textVars, exportVars, listVars, runVars>>

FilterNext == FilterCall

SpecFilter == FilterInit /\ [][FilterNext]_vars

\* a criterion that is absent or empty imposes no restriction
Admits(c, v) == ~c.given \/ c.vals = {} \/ v \in c.vals

RowWanted(r) ==
    /\ Admits(crit[1], r.region_of_residence)
    /\ Admits(crit[2], r.age)
    /\ Admits(crit[3], r.income)
    /\ Admits(crit[4], r.food_restrictions)

\* a is a subsequence of b, in b's order (participant ids are unique)
InOrder(a) == \A i, j \in 1..Len(a) : i < j => a[i].participant_id < a[j].participant_id

\* C2: the rows filter_by_demographics returns are exactly the input rows
\* that satisfy every supplied non-empty criterion, each once and in input
\* order; absent or empty criteria impose no restriction.
C2_FilterExact ==
    mode = "filter_done" =>
        /\ Range(sub) = {df[i] : i \in {k \in 1..Len(df) : RowWanted(df[k])}}
        /\ InOrder(sub)
        /\ (\A i \in 1..4 : ~Truthy(crit[i])) => sub = df

\* C2 witness: two criteria are supplied and they keep one row and drop another
C2_Witness ==
    /\ mode = "filter_done"
    /\ Truthy(crit[1]) /\ Truthy(crit[2])
    /\ Len(df) = 2 /\ Len(sub) = 1

\* C2 witness of the empty result: criteria that match no row
C2_WitnessEmpty ==
    mode = "filter_done" /\ Len(df) > 0 /\ sub = <<>>

(***************************************************************************)
(* data_processor.build_text_df                                            *)
(***************************************************************************)
MaxTextRows == 2
MaxSel == 2

DEMO_COLS ==
    <<"participant_id", "age", "city_of_residence", "state_of_residence",
      "region_of_residence", "income", "pizza_consumption", "food_restrictions">>

RESPONSE_COLS ==
    <<"q1_response", "q2_response", "q3_response", "q4_response", "q5_response">>

\* a spreadsheet cell: missing, a string, or a number
NULL      == [kind |-> "null", s |-> <<>>, n |-> 0]
StrCell(s) == [kind |-> "str", s |-> s, n |-> 0]
IntCell(n) == [kind |-> "int", s |-> <<>>, n |-> n]

\* pd.notnull(r)
NotNull(c) == c.kind # "null"

\* str(r) of a cell that is not missing (numbers here have one digit)
Digits == <<"0", "1", "2", "3", "4", "5", "6", "7", "8", "9">>
PyStr(c) == IF c.kind = "str" THEN c.s ELSE <<Digits[c.n + 1]>>

\* [q for q in questions if q in RESPONSE_COLS]
ValidQs(qs) == SelectSeq(qs, LAMBDA q : q \in Range(RESPONSE_COLS))

\* the lambda of df[valid_qs].apply(..., axis=1), then .str.strip()
RECURSIVE RowParts(_, _)
RowParts(row, qs) ==
    IF qs = <<>> THEN <<>>
    ELSE LET r == row[Head(qs)]
         IN  IF NotNull(r) /\ Strip(PyStr(r)) # <<>>
             THEN <<PyStr(r)>> \o RowParts(row, Tail(qs))
             ELSE RowParts(row, Tail(qs))

RowText_untrimmed(row, qs) == Join(RowParts(row, qs), <<" ">>)

RowText(row, qs) == Strip(Join(RowParts(row, qs), <<" ">>))

\* out = df[DEMO_COLS].copy(); out["text"] = text
OutRow(row, qs) ==
    [c \in Range(DEMO_COLS) \cup {"text"} |->
        IF c = "text" THEN StrCell(RowText(row, qs)) ELSE row[c]]

Raised(e)   == [status |-> e, rows |-> <<>>]
Returned(t) == [status |-> "ok", rows |-> t]

build_text_df_strict(t, qs) ==
    IF qs = <<>> \/ \E i \in 1..Len(qs) : qs[i] \notin Range(RESPONSE_COLS)
    THEN Raised("ValueError")
    ELSE Returned(SelectSeq([i \in 1..Len(t) |-> OutRow(t[i], qs)],
                            LAMBDA o : o["text"].s # <<>>))

build_text_df(t, qs) ==
    LET valid_qs == ValidQs(qs)
    IN  IF valid_qs = <<>> THEN Raised("ValueError")
        \* DataFrame.apply(axis=1) of a frame without rows returns an empty
        \* float64 Series, which has no .str accessor
        ELSE IF t = <<>> THEN Raised("AttributeError")
        ELSE Returned(SelectSeq([i \in 1..Len(t) |-> OutRow(t[i], valid_qs)],
                                LAMBDA o : o["text"].s # <<>>))

Q1Cells == {NULL, StrCell(<<" ">>), StrCell(<<" ", "b", " ">>)}
Q2Cells == {StrCell(<<>>), StrCell(<<"c", " ", "d">>), IntCell(7)}

FullRow(i, region, q1, q2) ==
    [participant_id |-> i, age |-> 30, city_of_residence |-> "Boston",
     state_of_residence |-> "MA", region_of_residence |-> region,
     income |-> "low", pizza_consumption |-> "weekly", food_restrictions |-> "none",
     q1_response |-> q1, q2_response |-> q2, q3_response |-> StrCell(<<"e">>),
     q4_response |-> StrCell(<<"\t">>), q5_response |-> NULL]

TextRow(i, q1, q2) == FullRow(i, "Northeast", q1, q2)

TextTables ==
    {[i \in 1..Len(a) |-> TextRow(i, a[i][1], a[i][2])]
     : a \in SeqsUpTo(Q1Cells \X Q2Cells, MaxTextRows)}

QuestionNames == Range(RESPONSE_COLS) \cup {"favourite_topping"}

TextInit ==
    /\ mode = "text_input"
    /\ text_in \in TextTables
    /\ questions \in SeqsUpTo(QuestionNames, MaxSel)
    /\ text_res = [status |-> "none", rows |-> <<>>]
    /\ FilterIdle /\ ExportIdle /\ ListIdle /\ RunIdle

TextCall ==
    /\ mode = "text_input"
    /\ text_res' = build_text_df(text_in, questions)
    /\ mode' = "text_done"
    /\ UNCHANGED <<text_in, questions>>
    /\ UNCHANGED <<filterVars, exportVars, listVars, runVars>>

TextNext == TextCall

SpecText == TextInit /\ [][TextNext]_vars

\* the selection is non-empty and drawn from the five known response fields
ValidSelection(qs) == qs # <<>> /\ \A i \in 1..Len(qs) : qs[i] \in Range(RESPONSE_COLS)

\* a cell that is null, or whose string form holds nothing but whitespace
Blank(c) == c.kind = "null" \/ \A k \in 1..Len(PyStr(c)) : PyStr(c)[k] \in WHITESPACE

\* the selected non-null, non-blank fields of a row, in selection order,
\* joined by single spaces and trimmed
AssembledText(row, qs) ==
    LET kept == SelectSeq(qs, LAMBDA q : ~Blank(row[q]))
    IN  Strip(Join([k \in 1..Len(kept) |-> PyStr(row[kept[k]])], <<" ">>))

RowsOf(pid) == {k \in 1..Len(text_res.rows) : text_res.rows[k]["participant_id"] = pid}

\* C3: for a valid selection every input row's text is the space-joined,
\* trimmed concatenation of its selected non-blank fields in selection order;
\* the row is absent from the output iff that text is empty, and a surviving
\* row appears once, in input order, with its identifier and demographic
\* attributes unchanged.
C3_TextAssembly ==
    (mode = "text_done" /\ ValidSelection(questions) /\ text_in # <<>>) =>
        /\ text_res.status = "ok"
        /\ \A i \in 1..Len(text_in) :
              LET txt == AssembledText(text_in[i], questions)
              IN  /\ (txt = <<>>) <=> (RowsOf(i) = {})
                  /\ txt # <<>> =>
                        /\ Cardinality(RowsOf(i)) = 1
                        /\ \A k \in RowsOf(i) :
                              /\ text_res.rows[k]["text"] = StrCell(txt)
                              /\ \A c \in Range(DEMO_COLS) :
                                    text_res.rows[k][c] = text_in[i][c]
        /\ \A k \in 1..Len(text_res.rows) :
              text_res.rows[k]["participant_id"] \in 1..Len(text_in)
        /\ \A j, k \in 1..Len(text_res.rows) :
              j < k => text_res.rows[j]["participant_id"] < text_res.rows[k]["participant_id"]

\* C3 witness: q1 is blank, q2 holds text, so the text is q2 alone; a second
\* row with both fields blank is dropped
C3_Witness ==
    /\ mode = "text_done"
    /\ questions = <<"q1_response", "q2_response">>
    /\ Len(text_in) = 2
    /\ text_in[1]["q1_response"] = StrCell(<<" ">>)
    /\ text_in[1]["q2_response"] = StrCell(<<"c", " ", "d">>)
    /\ text_in[2]["q1_response"] = NULL
    /\ text_in[2]["q2_response"] = StrCell(<<>>)
    /\ Len(text_res.rows) = 1
    /\ text_res.rows[1]["text"] = StrCell(<<"c", " ", "d">>)

\* C4 as claimed: a validation error whenever the selection is empty or holds
\* a name outside the five known response fields, and a Document table only
\* for a valid selection (read on tables that have rows)
C4_Original ==
    (mode = "text_done" /\ text_in # <<>>) =>
        /\ ~ValidSelection(questions) => text_res.status = "ValueError"
        /\ text_res.status = "ok" => ValidSelection(questions)

\* C4: build_text_df fails with the validation error exactly when the
\* selection holds no known response field; unknown names beside a known one
\* are ignored, and the Document table is the one built from the known names.
C4_Amended ==
    mode = "text_done" =>
        /\ text_res.status = "ValueError" <=>
              (\A i \in 1..Len(questions) : questions[i] \notin Range(RESPONSE_COLS))
        /\ text_res.status = "ok" =>
              /\ \E i \in 1..Len(questions) : questions[i] \in Range(RESPONSE_COLS)
              /\ \A k \in 1..Len(text_res.rows) :
                    text_res.rows[k]["text"] =
                        StrCell(AssembledText(
                            text_in[text_res.rows[k]["participant_id"]],
                            SelectSeq(questions, LAMBDA q : q \in Range(RESPONSE_COLS))))
        /\ (text_in # <<>> /\ \E i \in 1..Len(questions) : questions[i] \in Range(RESPONSE_COLS))
              => text_res.status = "ok"

\* C4 witness: an unknown name beside a known one, and a table is produced
C4_Witness ==
    /\ mode = "text_done"
    /\ questions = <<"favourite_topping", "q2_response">>
    /\ text_res.status = "ok"
    /\ Len(text_res.rows) > 0

(***************************************************************************)
(* theme_analyzer._build_export_from_long                                  *)
(***************************************************************************)
MaxScoreRows == 2
MaxHighlightRows == 4
MaxConcepts == 2

\* the default threshold 0.75; scores are held in hundredths
THRESHOLD == 75

\* a score cell: a number (in hundredths) or something pd.to_numeric coerces to NaN
NumScore(v) == [numeric |-> TRUE, v |-> v]
BadScore    == [numeric |-> FALSE, v |-> 0]

\* pd.to_numeric(sub["score"], errors="coerce") >= threshold  (NaN >= x is False)
is_match_strict(r, threshold) == r.score.numeric /\ r.score.v > threshold

is_match(r, threshold) == r.score.numeric /\ r.score.v >= threshold

\* Series.astype(str).nunique()
NUniqueStr(cells) == Cardinality({PyStr(cells[i]) : i \in 1..Len(cells)})

Column(t, col) == [i \in 1..Len(t) |-> t[i][col]]

\* Python's  a or b  on optional strings: None and "" are falsy
NONE == "None"
PyOr(a, b) == IF a \in {NONE, ""} THEN b ELSE a

\* the concept metadata (Concept.to_dict()) of each concept id
ConceptIds == {"c1", "c2", "c3"}
ConceptMeta(cid) ==
    CASE cid = "c1" -> [name |-> "Crust", concept |-> NONE, prompt |-> "Is it about crust?", summary |-> "Crust talk"]
      [] cid = "c2" -> [name |-> "", concept |-> "Sauce", prompt |-> "Is it about sauce?", summary |-> NONE]
      [] OTHER      -> [name |-> NONE, concept |-> NONE, prompt |-> NONE, summary |-> NONE]

\* c.get("name") or c.get("concept") or str(cid)
ConceptName(cid) == PyOr(ConceptMeta(cid).name, PyOr(ConceptMeta(cid).concept, cid))

\* a float kept as the fraction it was computed from
Frac(n, d) == <<n, d>>

\* one pass of the loop over concepts_dict.items()
ExportRow(t, cid, threshold) ==
    LET n_docs    == NUniqueStr(Column(t, "doc_id"))
        csub      == SelectSeq(t, LAMBDA r : r.concept_id = cid)
        matched   == SelectSeq(csub, LAMBDA r : is_match(r, threshold))
        n_matches == NUniqueStr(Column(matched, "doc_id"))
        dropna    == SelectSeq(Column(matched, "highlight"), NotNull)
        highs     == Take([i \in 1..Len(dropna) |-> PyStr(dropna[i])], 3)
    IN  [concept    |-> ConceptName(cid),
         criteria   |-> PyOr(ConceptMeta(cid).prompt, ""),
         summary    |-> ConceptMeta(cid).summary,
         prevalence |-> IF n_docs # 0 THEN Frac(n_matches, n_docs) ELSE Frac(0, 1),
         n_matches  |-> n_matches,
         highlights |-> highs]

\* every ordering of t
Perms(t) ==
    {[i \in 1..Len(t) |-> t[f[i]]] :
        f \in {g \in [1..Len(t) -> 1..Len(t)] : \A a, b \in 1..Len(t) : a # b => g[a] # g[b]}}

sort_values_unsorted(t) == {t}

\* DataFrame.sort_values("n_matches", ascending=False): the default kind,
\* quicksort, is not stable, so rows of equal n_matches come out in any order
sort_values_desc(t) ==
    {p \in Perms(t) : \A i \in 1..Len(p) - 1 : p[i].n_matches >= p[i + 1].n_matches}

\* the outcomes of _build_export_from_long(score_df, concepts_dict, threshold)
build_export_from_long(t, cids, threshold) ==
    LET rows == [i \in 1..Len(cids) |-> ExportRow(t, cids[i], threshold)]
    IN  IF rows = <<>>
        \* pd.DataFrame([]) has no column n_matches for sort_values to find
        THEN {Raised("KeyError")}
        ELSE {Returned(p) : p \in sort_values_desc(rows)}

ScoreRow(d, c, sc, h) ==
    [doc_id |-> d, concept_id |-> c, concept_name |-> ConceptName(c), score |-> sc, highlight |-> h]

\* score tables that vary documents, concepts and scores
CountRows ==
    {ScoreRow(d, c, sc, StrCell(<<"x">>)) :
        d \in {IntCell(1), StrCell(<<"1">>), StrCell(<<"2">>)},
        c \in {"c1", "c2"},
        sc \in {NumScore(50), NumScore(75)}}

\* score tables of one concept, one row per document, that vary the highlight
HighlightCells == {NULL, StrCell(<<>>), StrCell(<<"x">>), StrCell(<<"y">>)}
HighlightTables ==
    {[i \in 1..Len(a) |-> ScoreRow(IntCell(i), "c1", a[i][1], a[i][2])] :
        a \in SeqsUpTo({NumScore(50), NumScore(90)} \X HighlightCells, MaxHighlightRows)}

\* the scenario of five documents scored [0.9, 0.8, 0.2, 0.76, 0.5] for one
\* concept, and 0.1 or an unparsable score for the other
ScenarioScores == <<90, 80, 20, 76, 50>>
ScenarioTable ==
    [i \in 1..10 |->
        IF i <= 5 THEN ScoreRow(IntCell(i), "c1", NumScore(ScenarioScores[i]), NULL)
        ELSE ScoreRow(IntCell(i - 5), "c2", IF i = 6 THEN BadScore ELSE NumScore(10), NULL)]

\* concept mappings: distinct concept ids in dict order
ConceptDicts ==
    {c \in SeqsUpTo(ConceptIds, MaxConcepts) : \A i, j \in 1..Len(c) : i # j => c[i] # c[j]}

ExportInit ==
    /\ mode = "export_input"
    /\ \/ score_df \in SeqsUpTo(CountRows, MaxScoreRows) /\ concepts_dict \in ConceptDicts
       \/ score_df \in HighlightTables /\ concepts_dict \in {<<"c1">>, <<"c2", "c1">>}
       \/ score_df = ScenarioTable /\ concepts_dict = <<"c1", "c2">>
    /\ export_res = [status |-> "none", rows |-> <<>>]
    /\ shown = <<>>
    /\ FilterIdle /\ TextIdle /\ ListIdle /\ RunIdle

ExportCall ==
    /\ mode = "export_input"
    /\ export_res' \in build_export_from_long(score_df, concepts_dict, THRESHOLD)
    /\ mode' = "export_done"
    /\ UNCHANGED <<score_df, concepts_dict, shown>>
    /\ UNCHANGED <<filterVars, textVars, listVars, runVars>>

\* app.py: the theme cards re-sort export_df by n_matches
PresentSort ==
    /\ mode = "export_done"
    /\ export_res.status = "ok"
    /\ shown' \in sort_values_desc(export_res.rows)
    /\ mode' = "export_shown"
    /\ UNCHANGED <<score_df, concepts_dict, export_res>>
    /\ UNCHANGED <<filterVars, textVars, listVars, runVars>>

ExportNext == ExportCall \/ PresentSort

SpecExport == ExportInit /\ [][ExportNext]_vars

ExportReturned == mode \in {"export_done", "export_shown"} /\ export_res.status = "ok"

\* the distinct document identifiers (in string form) of a set of score rows
DocsOf(S) == {PyStr(score_df[i].doc_id) : i \in S}

AllScoreRows == 1..Len(score_df)

\* the score records of a concept that clear the threshold
MatchingRows(cid) ==
    {i \in AllScoreRows :
        /\ score_df[i].concept_id = cid
        /\ score_df[i].score.numeric
        /\ score_df[i].score.v >= THRESHOLD}

SummaryRows(cid) ==
    {k \in 1..Len(export_res.rows) : export_res.rows[k].concept = ConceptName(cid)}

\* C5: every concept of the mapping has one summary row; its n_matches is the
\* number of distinct documents with a score record of that concept at or
\* above the threshold, and its prevalence is n_matches over the number of
\* distinct documents of the whole score table, 0 when there is no document.
C5_Prevalence ==
    (mode \in {"export_done", "export_shown"} /\ concepts_dict # <<>>) =>
        /\ export_res.status = "ok"
        /\ \A i \in 1..Len(concepts_dict) :
              /\ Cardinality(SummaryRows(concepts_dict[i])) = 1
              /\ \A k \in SummaryRows(concepts_dict[i]) :
                    LET row  == export_res.rows[k]
                        docs == Cardinality(DocsOf(AllScoreRows))
                    IN  /\ row.n_matches = Cardinality(DocsOf(MatchingRows(concepts_dict[i])))
                        /\ row.prevalence[2] > 0
                        /\ docs = 0 => row.prevalence[1] = 0
                        /\ docs > 0 => row.prevalence[1] * docs = row.n_matches * row.prevalence[2]

\* C5 witness: the scenario of scores [0.9, 0.8, 0.2, 0.76, 0.5] on five
\* documents gives n_matches = 3 and prevalence = 3/5
C5_Witness ==
    /\ ExportReturned
    /\ score_df = ScenarioTable
    /\ \E k \in 1..Len(export_res.rows) :
          /\ export_res.rows[k].concept = "Crust"
          /\ export_res.rows[k].n_matches = 3
          /\ export_res.rows[k].prevalence = Frac(3, 5)

\* C5 witness of the zero denominator: concepts, and a score table without rows
C5_WitnessNoDocs ==
    /\ ExportReturned
    /\ score_df = <<>>
    /\ Len(export_res.rows) = 2
    /\ \A k \in 1..2 : export_res.rows[k].prevalence = Frac(0, 1)

\* C6 as claimed: for every score table and every concept mapping, the empty
\* one included, _build_export_from_long returns (without raising) a summary
\* table with one row per concept
C6_NeverRaises ==
    mode \in {"export_done", "export_shown"} =>
        /\ export_res.status = "ok"
        /\ Len(export_res.rows) = Len(concepts_dict)

\* the place of a summary row's concept in the concept mapping
DictIndex(row) == CHOOSE i \in 1..Len(concepts_dict) : ConceptName(concepts_dict[i]) = row.concept

Descending(t) == \A i \in 1..Len(t) - 1 : t[i].n_matches >= t[i + 1].n_matches

TiesInDictOrder(t) ==
    \A i, j \in 1..Len(t) :
        (i < j /\ t[i].n_matches = t[j].n_matches) => DictIndex(t[i]) < DictIndex(t[j])

\* C9 as claimed: rows by non-increasing n_matches with ties in the order of
\* the concept mapping, in the returned table and after the re-sort
C9_Original ==
    /\ ExportReturned => Descending(export_res.rows) /\ TiesInDictOrder(export_res.rows)
    /\ mode = "export_shown" => Descending(shown) /\ TiesInDictOrder(shown)

\* C9: the summary rows are ordered by non-increasing n_matches, in the table
\* _build_export_from_long returns and after the presentation step re-sorts
\* it; both hold the same rows, one per concept. (The order of rows with equal
\* n_matches is not fixed.)
C9_Amended ==
    /\ ExportReturned =>
          /\ Descending(export_res.rows)
          /\ Len(export_res.rows) = Len(concepts_dict)
          /\ {export_res.rows[k].concept : k \in 1..Len(export_res.rows)}
                = {ConceptName(concepts_dict[i]) : i \in 1..Len(concepts_dict)}
    /\ mode = "export_shown" =>
          /\ Descending(shown)
          /\ Len(shown) = Len(export_res.rows)
          /\ Range(shown) = Range(export_res.rows)

\* C9 witness: the second concept of the mapping has more matches than the
\* first and is shown first
C9_Witness ==
    /\ mode = "export_shown"
    /\ concepts_dict = <<"c1", "c2">>
    /\ Len(shown) = 2
    /\ shown[1].concept = "Sauce" /\ shown[1].n_matches = 2
    /\ shown[2].concept = "Crust" /\ shown[2].n_matches = 0

\* the score rows, in table order, that a concept's highlights may come from
RECURSIVE AscendingSeq(_)
AscendingSeq(S) ==
    IF S = {} THEN <<>>
    ELSE LET m == CHOOSE x \in S : \A y \in S : x <= y
         IN  <<m>> \o AscendingSeq(S \ {m})

QuotableRows(cid) ==
    AscendingSeq({i \in MatchingRows(cid) :
        score_df[i].highlight.kind # "null" /\ PyStr(score_df[i].highlight) # <<>>})

\* C10 as claimed: a concept's highlights are the first (at most three)
\* highlight values, in score-table order, of its matching rows whose
\* highlight is non-null and non-empty
C10_Highlights ==
    ExportReturned =>
        \A i \in 1..Len(concepts_dict) :
            \A k \in SummaryRows(concepts_dict[i]) :
                export_res.rows[k].highlights =
                    Take([j \in 1..Len(QuotableRows(concepts_dict[i])) |->
                            PyStr(score_df[QuotableRows(concepts_dict[i])[j]].highlight)], 3)

(***************************************************************************)
(* app._to_list_like                                                       *)
(***************************************************************************)
MaxItems == 4
MaxLines == 4

\* the bullet character U+2022
BULLET == "u2022"

\* the argument of p.strip(" -\u2022\n\t")
BULLET_CHARS == {" ", "-", BULLET, "\n", "\t"}

\* the values _to_list_like is given: None, a list of strings, or a string
NoneVal     == [kind |-> "none", items |-> <<>>, s |-> <<>>]
ListVal(xs) == [kind |-> "list", items |-> xs, s |-> <<>>]
StrVal(s)   == [kind |-> "str", items |-> <<>>, s |-> s]

\* s.split(sep), sep one character
RECURSIVE Split(_, _)
Split(s, sep) ==
    IF \A i \in 1..Len(s) : s[i] # sep THEN <<s>>
    ELSE LET j == CHOOSE i \in 1..Len(s) : s[i] = sep /\ \A k \in 1..(i - 1) : s[k] # sep
         IN  <<SubSeq(s, 1, j - 1)>> \o Split(SubSeq(s, j + 1, Len(s)), sep)

\* repr() of a list of strings that hold no quote, backslash or control character
PyRepr(xs) ==
    <<"[">> \o Join([i \in 1..Len(xs) |-> <<"'">> \o xs[i] \o <<"'">>], <<",", " ">>) \o <<"]">>

ParseFail == [ok |-> FALSE, items |-> <<>>]

\* the elements of a list display, after its opening bracket: quoted strings
\* separated by commas, up to the closing bracket
RECURSIVE ParseElements(_, _)
ParseElements(s, acc) ==
    LET t == LStrip(s, {" "})
    IN  IF t = <<>> THEN ParseFail
        ELSE IF t[1] = "]" THEN
            (IF Len(t) = 1 THEN [ok |-> TRUE, items |-> acc] ELSE ParseFail)
        ELSE IF t[1] # "'" THEN ParseFail
        ELSE IF \A i \in 2..Len(t) : t[i] # "'" THEN ParseFail
        ELSE LET j    == CHOOSE i \in 2..Len(t) : t[i] = "'" /\ \A k \in 2..(i - 1) : t[k] # "'"
                 item == SubSeq(t, 2, j - 1)
                 rest == LStrip(SubSeq(t, j + 1, Len(t)), {" "})
             IN  IF rest = <<>> THEN ParseFail
                 ELSE IF rest[1] = "]" THEN
                     (IF Len(rest) = 1 THEN [ok |-> TRUE, items |-> Append(acc, item)] ELSE ParseFail)
                 ELSE IF rest[1] = "," THEN ParseElements(Tail(rest), Append(acc, item))
                 ELSE ParseFail

\* ast.literal_eval(s) giving a list: only a list display does, and of the
\* strings met here only one of quoted strings is one; anything else raises
\* or evaluates to something that is no list
LiteralEvalList(s) ==
    IF s # <<>> /\ s[1] = "[" THEN ParseElements(Tail(s), <<>>) ELSE ParseFail

\* [str(x).strip() for x in xs if str(x).strip()][:3]
StrippedItems(xs) ==
    Take(SelectSeq([i \in 1..Len(xs) |-> Strip(xs[i])], LAMBDA x : x # <<>>), 3)

\* [p.strip(" -\u2022\n\t") for p in s.split("\n") if p.strip()][:3]
LinePieces(s) ==
    LET ls   == Split(s, "\n")
        kept == SelectSeq(ls, LAMBDA p : Strip(p) # <<>>)
    IN  Take([i \in 1..Len(kept) |-> StripChars(kept[i], BULLET_CHARS)], 3)

to_list_like(v) ==
    IF v.kind = "none" THEN <<>>
    ELSE IF v.kind = "list" THEN StrippedItems(v.items)
    ELSE LET s      == Strip(v.s)
             parsed == LiteralEvalList(s)
         IN  IF parsed.ok THEN StrippedItems(parsed.items) ELSE LinePieces(s)

ListItems == {<<>>, <<" ">>, <<"a">>, <<" ", "b", " ">>}
TextLines ==
    {<<>>, <<" ">>, <<"-">>, <<BULLET, " ">>, <<"-", " ", "a">>, <<BULLET, " ", "b">>, <<"c", "\r">>}

ListInit ==
    /\ mode = "list_input"
    /\ val \in {NoneVal}
            \cup {ListVal(xs) : xs \in SeqsUpTo(ListItems, MaxItems)}
            \cup {StrVal(PyRepr(xs)) : xs \in SeqsUpTo(ListItems, MaxItems)}
            \cup {StrVal(Join(ls, <<"\n">>)) : ls \in SeqsUpTo(TextLines, MaxLines)}
    /\ pieces = <<>>
    /\ FilterIdle /\ TextIdle /\ ExportIdle /\ RunIdle

ListCall ==
    /\ mode = "list_input"
    /\ pieces' = to_list_like(val)
    /\ mode' = "list_done"
    /\ UNCHANGED val
    /\ UNCHANGED <<filterVars, textVars, exportVars, runVars>>

ListNext == ListCall

SpecList == ListInit /\ [][ListNext]_vars

\* C8 as claimed: whatever the value, _to_list_like returns at most 3
\* strings, each non-empty and trimmed
C8_Normalized ==
    mode = "list_done" =>
        /\ Len(pieces) <= 3
        /\ \A i \in 1..Len(pieces) :
              /\ pieces[i] # <<>>
              /\ pieces[i][1] \notin WHITESPACE
              /\ pieces[i][Len(pieces[i])] \notin WHITESPACE

(***************************************************************************)
(* app.py: the script run by the "Run Induction" button                   *)
(***************************************************************************)
MaxRunRows == 2

\* a missing value of an atomic column
NaN == "NaN"

\* sorted(...): the regions in ascending order, as groupby and sorted() give them
RegionOrder == <<"Northeast", "South">>

RunTables ==
    {[i \in 1..Len(a) |-> FullRow(i, a[i][1], a[i][2], StrCell(<<>>))] :
        a \in SeqsUpTo((Regions \cup {NaN}) \X {NULL, StrCell(<<"a">>)}, MaxRunRows) \ {<<>>}}

\* df_full["region_of_residence"].dropna().unique(): the multiselect's options
RegionOptions(t) == {t[i].region_of_residence : i \in 1..Len(t)} \ {NaN}

\* st.multiselect over RESPONSE_COLS: the selections tried
RunSelections ==
    {<<>>, <<"q1_response">>, <<"q2_response", "q1_response">>, <<"q5_response">>}

Msg(level, text) == [level |-> level, text |-> text]

\* the widget values of the next run; the table, the environment and the
\* imported library are those of the process
run_start_state ==
    /\ mode' = "run_start"
    /\ \E chosen \in SUBSET RegionOptions(df) :
          crit' = <<ListCrit(chosen), NoneCrit, NoneCrit, NoneCrit>>
    /\ questions' \in RunSelections
    /\ sub' = <<>> /\ text_in' = <<>> /\ text_res' = [status |-> "none", rows |-> <<>>]
    /\ score_df' = <<>> /\ concepts_dict' = <<>>
    /\ export_res' = [status |-> "none", rows |-> <<>>] /\ shown' = <<>>
    /\ df_text' = <<>> /\ engine_calls' = 0 /\ msgs' = <<>> /\ cards' = <<>> /\ breakdown' = <<>>
    /\ UNCHANGED <<df, api_key, has_lloom, listVars>>

RunInit ==
    /\ mode = "run_start"
    /\ df \in RunTables
    /\ \E chosen \in SUBSET RegionOptions(df) :
          crit = <<ListCrit(chosen), NoneCrit, NoneCrit, NoneCrit>>
    /\ questions \in RunSelections
    /\ api_key \in {NONE, "", "sk-test"}
    /\ has_lloom \in BOOLEAN
    /\ sub = <<>> /\ text_in = <<>> /\ text_res = [status |-> "none", rows |-> <<>>]
    /\ ExportIdle /\ ListIdle
    /\ df_text = <<>> /\ engine_calls = 0 /\ msgs = <<>> /\ cards = <<>> /\ breakdown = <<>>

\* 1) Region slice
SliceStep ==
    /\ mode = "run_start"
    /\ sub' = filter_by_demographics(df, crit[1], NoneCrit, NoneCrit, NoneCrit)
    /\ mode' = "sliced"
    /\ UNCHANGED <<df, crit, textVars, exportVars, listVars, runVars>>

\* df_text["doc_id"] = df_text["participant_id"].astype(str)
WithDocId(rows) ==
    [i \in 1..Len(rows) |->
        [c \in DOMAIN rows[i] \cup {"doc_id"} |->
            IF c = "doc_id" THEN StrCell(PyStr(IntCell(rows[i]["participant_id"])))
            ELSE rows[i][c]]]

\* 2) Build text df & set doc_id; a ValueError is shown and the script stops,
\* any other exception ends the script with Streamlit's exception box
BuildTextStep ==
    /\ mode = "sliced"
    /\ text_in' = sub
    /\ text_res' = build_text_df(sub, questions)
    /\ IF text_res'.status = "ok"
       THEN /\ df_text' = WithDocId(text_res'.rows)
            /\ mode' = "text_built"
            /\ UNCHANGED msgs
       ELSE IF text_res'.status = "ValueError"
       THEN /\ msgs' = Append(msgs, Msg("error", "No valid question columns selected."))
            /\ mode' = "stopped"
            /\ UNCHANGED df_text
       ELSE /\ msgs' = Append(msgs, Msg("exception", text_res'.status))
            /\ mode' = "crashed"
            /\ UNCHANGED df_text
    /\ UNCHANGED <<filterVars, questions, exportVars, listVars,
                   api_key, has_lloom, engine_calls, cards, breakdown>>

\* if df_text.empty: st.warning(...); st.stop()
EmptyGuard ==
    /\ mode = "text_built"
    /\ IF df_text = <<>>
       THEN /\ msgs' = Append(msgs, Msg("warning", "No non-empty text after filters/questions."))
            /\ mode' = "stopped"
       ELSE /\ mode' = "nonempty"
            /\ UNCHANGED msgs
    /\ UNCHANGED <<filterVars, textVars, exportVars, listVars,
                   api_key, has_lloom, df_text, engine_calls, cards, breakdown>>

KeyGuard_missing ==
    /\ mode = "nonempty"
    /\ mode' = "key_ok"
    /\ UNCHANGED <<filterVars, textVars, exportVars, listVars, runVars>>

\* 3) API key guard: if not os.getenv("OPENAI_API_KEY"): st.error(...); st.stop()
KeyGuard ==
    /\ mode = "nonempty"
    /\ IF api_key \in {NONE, ""}
       THEN /\ msgs' = Append(msgs, Msg("error", "OPENAI_API_KEY not found."))
            /\ mode' = "stopped"
       ELSE /\ mode' = "key_ok"
            /\ UNCHANGED msgs
    /\ UNCHANGED <<filterVars, textVars, exportVars, listVars,
                   api_key, has_lloom, df_text, engine_calls, cards, breakdown>>

\* what wb.lloom(...).gen_auto(...) may return for the documents: the concept
\* ids, and one score record per concept and document, a match (0.9) for the
\* documents of m[concept] and no match (0.5) for the others
EngineScores(docs, cids, m) ==
    [k \in 1..(Len(cids) * Len(docs)) |->
        LET c == ((k - 1) \div Len(docs)) + 1
            d == ((k - 1) % Len(docs)) + 1
        IN  ScoreRow(docs[d]["doc_id"], cids[c],
                     IF d \in m[c] THEN NumScore(90) ELSE NumScore(50),
                     StrCell(<<"x">>))]

EngineConcepts == {<<>>, <<"c1">>, <<"c1", "c2">>}

\* 4) run_lloom_induction: _assert_lloom(), the engine call, then
\* _build_export_from_long; an exception of any of them ends the script
run_lloom_induction ==
    /\ mode = "key_ok"
    /\ IF ~has_lloom
       THEN /\ msgs' = Append(msgs, Msg("exception", "RuntimeError"))
            /\ mode' = "crashed"
            /\ UNCHANGED <<engine_calls, score_df, concepts_dict, export_res>>
       ELSE /\ engine_calls' = engine_calls + 1
            /\ \/ \* the engine call fails
                  /\ msgs' = Append(msgs, Msg("exception", "engine"))
                  /\ mode' = "crashed"
                  /\ UNCHANGED <<score_df, concepts_dict, export_res>>
               \/ \E cids \in EngineConcepts :
                    \E m \in [1..Len(cids) -> SUBSET (1..Len(df_text))] :
                      /\ score_df' = EngineScores(df_text, cids, m)
                      /\ concepts_dict' = cids
                      /\ export_res' \in build_export_from_long(score_df', cids, THRESHOLD)
                      /\ IF export_res'.status = "ok"
                         THEN mode' = "induced" /\ UNCHANGED msgs
                         ELSE /\ msgs' = Append(msgs, Msg("exception", export_res'.status))
                              /\ mode' = "crashed"
    /\ UNCHANGED <<filterVars, textVars, shown, listVars,
                   api_key, has_lloom, df_text, cards, breakdown>>

\* one theme card
Card(row) ==
    [name |-> row.concept, summary |-> row.summary,
     highlights |-> to_list_like(ListVal(row.highlights)),
     prev |-> row.prevalence, n_matches |-> row.n_matches]

\* Theme Cards: "No concepts returned." for a frame without a concept column,
\* else the re-sorted rows, one card each
CardsStep ==
    /\ mode = "induced"
    /\ IF export_res.rows = <<>>
       THEN /\ msgs' = Append(msgs, Msg("info", "No concepts returned."))
            /\ UNCHANGED <<shown, cards>>
       ELSE /\ shown' \in sort_values_desc(export_res.rows)
            /\ cards' = [i \in 1..Len(shown') |-> Card(shown'[i])]
            /\ UNCHANGED msgs
    /\ mode' = "carded"
    /\ UNCHANGED <<filterVars, textVars, score_df, concepts_dict, export_res, listVars,
                   api_key, has_lloom, df_text, engine_calls, breakdown>>

\* region_map = df_text[["doc_id", "region_of_residence"]].dropna()
RegionMap(dt) ==
    SelectSeq([i \in 1..Len(dt) |->
                  [doc_id |-> PyStr(dt[i]["doc_id"]),
                   region_of_residence |-> dt[i]["region_of_residence"]]],
              LAMBDA r : r.region_of_residence # NaN)

\* groupby("region_of_residence")["doc_id"].nunique().reset_index(name=...):
\* one row per region that occurs, in ascending order of region
DocsByRegion(rows, count_col) ==
    LET n(g) == Cardinality({rows[i].doc_id : i \in {k \in 1..Len(rows) : rows[k].region_of_residence = g}})
        present == SelectSeq(RegionOrder, LAMBDA g : n(g) > 0)
    IN  [i \in 1..Len(present) |->
            [c \in {"region_of_residence", count_col} |->
                IF c = count_col THEN n(present[i]) ELSE present[i]]]

totals_by_region(region_map) == DocsByRegion(region_map, "n_texts")

\* score_df.loc[is_match, ["doc_id", "concept_name"]].merge(region_map, on="doc_id", how="inner")
matched_rows(sd, region_map, threshold) ==
    LET hits == SelectSeq(sd, LAMBDA r : is_match(r, threshold))
        Joined(r) == SelectSeq(region_map, LAMBDA g : g.doc_id = PyStr(r.doc_id))
        RECURSIVE Merge(_)
        Merge(h) ==
            IF h = <<>> THEN <<>>
            ELSE [i \in 1..Len(Joined(Head(h))) |->
                    [doc_id |-> PyStr(Head(h).doc_id),
                     concept_name |-> Head(h).concept_name,
                     region_of_residence |-> Joined(Head(h))[i].region_of_residence]]
                 \o Merge(Tail(h))
    IN  Merge(hits)

\* n_matches / n_texts, then .replace([inf], 0.0)
RegionPrevalence(n_matches, n_texts) ==
    IF n_texts # 0 THEN Frac(n_matches, n_texts)
    ELSE IF n_matches # 0 THEN Frac(0, 1)
    ELSE Frac(0, 0)

by_region_inner(csub, totals) ==
    LET counts == DocsByRegion(csub, "n_matches")
        Total(g) == (CHOOSE t \in Range(totals) : t["region_of_residence"] = g)["n_texts"]
    IN  [i \in 1..Len(counts) |->
            [region_of_residence |-> counts[i]["region_of_residence"],
             n_matches |-> counts[i]["n_matches"],
             n_texts |-> Total(counts[i]["region_of_residence"]),
             prevalence |-> RegionPrevalence(counts[i]["n_matches"],
                                             Total(counts[i]["region_of_residence"]))]]

\* the per-region counts of one concept, right-merged onto totals_by_region
\* with the missing counts filled with 0, before the final sort
by_region(csub, totals) ==
    LET counts == DocsByRegion(csub, "n_matches")
        Count(g) == IF \E c \in Range(counts) : c["region_of_residence"] = g
                    THEN (CHOOSE c \in Range(counts) : c["region_of_residence"] = g)["n_matches"]
                    ELSE 0
    IN  [i \in 1..Len(totals) |->
            [region_of_residence |-> totals[i]["region_of_residence"],
             n_matches |-> Count(totals[i]["region_of_residence"]),
             n_texts |-> totals[i]["n_texts"],
             prevalence |-> RegionPrevalence(Count(totals[i]["region_of_residence"]),
                                             totals[i]["n_texts"])]]

\* the loop over concept_order: a concept without matched rows is skipped;
\* each table is sorted by n_matches, descending
RECURSIVE BreakdownTables(_, _, _)
BreakdownTables(concept_order, matched, totals) ==
    IF concept_order = <<>> THEN {<<>>}
    ELSE LET cname == Head(concept_order)
             csub  == SelectSeq(matched, LAMBDA r : r.concept_name = cname)
             rest  == BreakdownTables(Tail(concept_order), matched, totals)
         IN  IF csub = <<>> THEN rest
             ELSE {<<[concept |-> cname, rows |-> t]>> \o r :
                      t \in sort_values_desc(by_region(csub, totals)), r \in rest}

\* Docs per Theme and Regional Breakdown
BreakdownStep ==
    /\ mode = "carded"
    /\ LET region_map == RegionMap(df_text)
           totals     == totals_by_region(region_map)
           matched    == matched_rows(score_df, region_map, THRESHOLD)
           no_counts  == \A i \in 1..Len(score_df) : ~is_match(score_df[i], THRESHOLD)
           m1 == IF no_counts
                 THEN Append(msgs, Msg("info", "No matched documents at the current threshold."))
                 ELSE msgs
       IN  IF matched = <<>>
           THEN /\ msgs' = Append(m1, Msg("info", "No matches to display per region yet."))
                /\ breakdown' = <<>>
           ELSE /\ msgs' = m1
                /\ breakdown' \in BreakdownTables(
                        IF export_res.rows # <<>>
                        THEN [i \in 1..Len(shown) |-> shown[i].concept]
                        ELSE <<>>,
                        matched, totals)
    /\ mode' = "done"
    /\ UNCHANGED <<filterVars, textVars, exportVars, listVars,
                   api_key, has_lloom, df_text, engine_calls, cards>>

RunOver == mode \in {"stopped", "crashed", "done"}

\* the button is pressed again, with any widget values
Rerun ==
    /\ RunOver
    /\ run_start_state

RunNext ==
    \/ SliceStep
    \/ BuildTextStep
    \/ EmptyGuard
    \/ KeyGuard
    \/ run_lloom_induction
    \/ CardsStep
    \/ BreakdownStep
    \/ Rerun

Spec == RunInit /\ [][RunNext]_vars

\* the guards of a run, read off its inputs
NoValidQuestion == \A i \in 1..Len(questions) : questions[i] \notin Range(RESPONSE_COLS)

SliceRowIds == {i \in 1..Len(df) : Admits(crit[1], df[i].region_of_residence)}

NoDocuments ==
    \A i \in SliceRowIds :
        AssembledText(df[i], SelectSeq(questions, LAMBDA q : q \in Range(RESPONSE_COLS))) = <<>>

NoCredential == api_key \in {NONE, ""}

GuardFails == NoValidQuestion \/ NoDocuments \/ NoCredential \/ ~has_lloom

\* C1: in a run whose question selection holds no valid response field,
\* whose document set is empty, whose OPENAI_API_KEY is unset or empty, or
\* whose engine library is missing, the engine is never called: the run never
\* gets past the guards, and it ends stopped or failed with an error, warning
\* or exception message as the last thing shown.
C1_GuardsBeforeEngine ==
    /\ GuardFails =>
          /\ engine_calls = 0
          /\ mode \in {"run_start", "sliced", "text_built", "nonempty", "key_ok", "stopped", "crashed"}
          /\ RunOver =>
                /\ msgs # <<>>
                /\ msgs[Len(msgs)].level \in {"error", "warning", "exception"}
    /\ engine_calls > 0 => ~GuardFails

\* C1 witness: documents exist and the library is there, but the credential
\* is unset: the run has stopped with the error and without an engine call
C1_Witness ==
    /\ mode = "stopped"
    /\ df_text # <<>>
    /\ has_lloom
    /\ api_key = NONE
    /\ engine_calls = 0
    /\ msgs = <<Msg("error", "OPENAI_API_KEY not found.")>>

\* the regions present among the documents of the slice
PresentRegions == {df_text[i]["region_of_residence"] : i \in 1..Len(df_text)} \ {NaN}

DocsIn(g) == {PyStr(df_text[i]["doc_id"]) : i \in {k \in 1..Len(df_text) : df_text[k]["region_of_residence"] = g}}

\* the documents of region g that match concept cid
HitsIn(cid, g) == DocsOf(MatchingRows(cid)) \cap DocsIn(g)

TablesOf(cid) == {k \in 1..Len(breakdown) : breakdown[k].concept = ConceptName(cid)}

\* table k lists region g once, with the zero-filled count, the region total
\* and their quotient
ListsRegion(k, cid, g) ==
    LET rs == {j \in 1..Len(breakdown[k].rows) : breakdown[k].rows[j].region_of_residence = g}
    IN  /\ Cardinality(rs) = 1
        /\ \A j \in rs :
              LET row == breakdown[k].rows[j]
              IN  /\ row.n_matches = Cardinality(HitsIn(cid, g))
                  /\ row.n_texts = Cardinality(DocsIn(g))
                  /\ row.prevalence[2] > 0
                  /\ row.prevalence[1] * row.n_texts = row.n_matches * row.prevalence[2]

\* C7 as claimed: every concept of the run, one without any match included,
\* has a breakdown row for every region present among the documents
C7_Original ==
    mode = "done" =>
        \A i \in 1..Len(concepts_dict) : \A g \in PresentRegions :
            \E k \in TablesOf(concepts_dict[i]) : ListsRegion(k, concepts_dict[i], g)

\* C7: a concept with at least one matching document of a known region has
\* one breakdown table, which lists every region present among the slice's
\* documents exactly once, regions without a match with n_matches = 0, each
\* row with prevalence = n_matches / region total (the total is never 0); a
\* concept without such a match is skipped and has no breakdown table.
C7_Amended ==
    mode = "done" =>
        \A i \in 1..Len(concepts_dict) :
            LET cid == concepts_dict[i]
            IN  IF \E g \in PresentRegions : HitsIn(cid, g) # {}
                THEN /\ Cardinality(TablesOf(cid)) = 1
                     /\ \A k \in TablesOf(cid) :
                           /\ \A g \in PresentRegions : ListsRegion(k, cid, g)
                           /\ Len(breakdown[k].rows) = Cardinality(PresentRegions)
                ELSE TablesOf(cid) = {}

\* C7 witness: two regions, and a concept matched in one of them only: its
\* table lists the other region with n_matches = 0
C7_Witness ==
    /\ mode = "done"
    /\ Cardinality(PresentRegions) = 2
    /\ \E k \in 1..Len(breakdown) :
          /\ Len(breakdown[k].rows) = 2
          /\ breakdown[k].rows[1].n_matches = 1
          /\ breakdown[k].rows[2].n_matches = 0
          /\ breakdown[k].rows[2].prevalence = Frac(0, 1)
====
